---- MODULE Spec2Model ----
(***************************************************************************)
(* PAP heartbeat collector: the alert dispatcher (src/alert-client.ts),    *)
(* the zombie scanner (src/zombie-detector.ts), the liveness store         *)
(* (src/store.ts) and the heartbeat ingest route, as one state machine.    *)
(*                                                                         *)
(* The program runs on one JavaScript event loop.  A handler runs          *)
(* atomically up to its next await of a network call (fetch); an await of  *)
(* an async function that returned without reaching fetch resumes in the   *)
(* same macrotask, so it is part of the same step.  Every invocation that  *)
(* is suspended in fetch is a record in passes, sends or scans, and its    *)
(* resumption is a separate action.                                        *)
(*                                                                         *)
(* Time is Date.now() in milliseconds and advances in steps of TickMs; the  *)
(* order of the events of one instant is free.                             *)
(***************************************************************************)
EXTENDS Integers, Sequences, FiniteSets, Bags, TLC

----------------------------------------------------------------------------
\* Bounds of the model (configuration values are chosen, not program constants).

MaxTime == 30000            \* the clock of the queue's specification stops here
MaxDedupTime == 70000       \* the clock of the deduplication's specification stops here
MaxAlerts == 3              \* alerts that pass deduplication, over a run
MaxInFlight == 1            \* sendAlert invocations suspended at once
MaxFlush == 1               \* flushQueue calls (shutdown signals), over a run
MaxScanTime == 30000        \* the clock of the scanner's specification stops here
MaxReports == 3             \* heartbeats accepted, over a run
MaxScans == 2               \* check() invocations suspended at once
MaxStoreTime == 10000       \* the clock of the store's specification stops here
MaxSubs == 2                \* enableObservation calls (observe connections), over a run
MaxRemovals == 1            \* removeAgent calls, over a run
MaxAttempts == 6            \* the attempt counters the backoff is tabulated for
MaxOverlap == 3             \* sendAlert invocations suspended at once, where notifies overlap
MaxOverlapTime == 10000     \* the clock of the overlapping notifies' specification stops here
MaxFrameTime == 10000       \* the clock of the whole collector's specification stops here
MaxLifecycleTime == 20000   \* the clock of the removals' specification stops here
MaxShutdownTime == 20000    \* the clock of the shutdown's specification stops here
MaxStartTime == 20000       \* the clock of the start-up specification stops here
MaxIngestTime == 10000      \* the clock of the ingest route's specification stops here
MaxReportInFlight == 2      \* sendAlert invocations suspended at once, where one report hands two alerts
alertQueueMaxSize == 2      \* config.alertQueueMaxSize
alertQueueTtlMs == 20000    \* config.alertQueueTtlMs

\* Program constants.

DEDUP_WINDOW_MS == 60000
SEND_TIMEOUT_MS == 10000
BACKOFF_BASE_MS == 5000
BACKOFF_MAX_MS == 60000

ZOMBIE_GRACE_MULTIPLIER == 2
RESTART_SLACK_S == 10
zombieCheckIntervalMs == 10000
FORCED_EXIT_MS == 10000

HEARTBEAT_INTERVALS == [EMERGENCY |-> 5000, IDLE |-> 30000, SLEEP |-> 900000]

TickMs == SEND_TIMEOUT_MS

Agents == {"a1", "a2"}

\* the kinds an AlertClient method builds (MODE_CHANGE is declared, never built)
AlertType == {"AGENT_DEATH", "EMERGENCY_MODE", "RESTART_DETECTED"}

\* the alerts the queue's specification is driven with
QueueKinds == {"AGENT_DEATH", "EMERGENCY_MODE"}

\* the heartbeats the scanner's specification is driven with
ReportModes == {"EMERGENCY", "IDLE"}
ReportUptimes == {0, 20}

\* the heartbeats the store's specification is driven with
StoreUptimes == {0, 10, 11}

\* the uptimes the ingest route's specification is driven with
IngestUptimes == {0, 11}

VARIABLES
    now,                \* Date.now()
    stationConfigured,  \* config.stationAlertUrl and config.stationAlertKey are set
    queue,              \* AlertClient.queue
    isProcessing,       \* AlertClient.isProcessing
    lastAlertByAgent,   \* AlertClient.lastAlertByAgent
    timers,             \* pending setTimeout(() => processQueue(), delay): due times
    passes,             \* processQueue invocations suspended in attemptSend (tried is history)
    sends,              \* sendAlert invocations suspended in attemptSend
    \* history variables (not program state)
    sent,               \* the alerts that passed deduplication, in order
    fate,               \* what became of each of them
    emittedAt,          \* when each agent's latest alert of each kind passed deduplication
    flushes,            \* the flushQueue calls so far
    blocked,            \* the processQueue calls that returned because a pass was active
    agents,             \* HeartbeatStore.agents, in the Map's insertion order
    intervalHandle,     \* ZombieDetector.intervalHandle is set
    nextScanAt,         \* when the setInterval timer of start() is next due
    alertedAgents,      \* ZombieDetector.alertedAgents
    scans,              \* check() invocations suspended in handleUnhealthyAgent
    deaths,             \* history: each agent's AGENT_DEATH alerts of its current outage
    reports,            \* history: the heartbeats accepted so far
    outcome,            \* history: the result of the fetch an invocation resumed from in the last step
    observationCallbacks, \* HeartbeatStore.observationCallbacks: each id's Set, by its index in cbSets
    cbSets,             \* the Set objects enableObservation created, each in insertion order
    handles,            \* the cleanup closures enableObservation returned (marked, called are history)
    liveSubs,           \* history: the subscriptions neither unsubscribed nor dropped by a removal
    removals,           \* history: the removeAgent calls so far
    notified,           \* history: the callbacks the latest recordHeartbeat invoked, in order
    reported,           \* history: each agent's reports since its record was created
    handed,             \* history: the alerts the latest heartbeat request handed to the AlertClient
    caught,             \* history: the callbacks whose error the latest notifyObservers caught and logged
    request,            \* history: the body of the latest POST /heartbeat/:agentId
    response,           \* history: the status it was answered with (0 before the first)
    shutdownAt,         \* history: when the first shutdown signal arrived (Never before it)
    awaitingFlush,      \* a shutdown() invocation is suspended in await alertClient.flushQueue()
    exitAt,             \* when the forced-exit timer of shutdown() is due (Never while not armed)
    exited,             \* process.exit was called
    built               \* history: the AGENT_DEATH alerts the latest step of a check() emitted

acVars == <<queue, isProcessing, lastAlertByAgent, timers, passes, sends>>
histVars == <<sent, fate, emittedAt, flushes, blocked>>
sysVars == <<agents, intervalHandle, nextScanAt, alertedAgents, built, scans, deaths, reports>>
obsVars == <<observationCallbacks, cbSets, handles, liveSubs, removals>>
reportVars == <<notified, reported, handed, caught, request, response>>
procVars == <<shutdownAt, awaitingFlush, exitAt, exited>>
vars == <<now, stationConfigured, procVars, acVars, histVars, sysVars, outcome, obsVars, reportVars>>

----------------------------------------------------------------------------
\* Helpers.

Min(a, b) == IF a < b THEN a ELSE b

RECURSIVE Pow2(_)
Pow2(n) == IF n = 0 THEN 1 ELSE 2 * Pow2(n - 1)

Ids(q) == {q[i].alert.id : i \in 1..Len(q)}

RemoveAt(s, i) == SubSeq(s, 1, i - 1) \o SubSeq(s, i + 1, Len(s))

NoAlert == [type |-> "none", timestamp |-> 0]

Never == 0 - 1

\* the value of a field that is absent
Undefined == "undefined"

\* uptime_seconds of a request body, with its typeof
Number(n) == [type |-> "number", value |-> n]

NoRequest == [mode |-> Undefined, uptime_seconds |-> [type |-> Undefined, value |-> 0]]

----------------------------------------------------------------------------
\* AlertClient

\* a deduplication that suppresses nothing
IsDuplicateNever(last, type, t) == FALSE

\* a deduplication that does not look at the kind
IsDuplicateAnyKind(last, type, t) ==
    IF last = NoAlert THEN FALSE ELSE t - last.timestamp < DEDUP_WINDOW_MS

\* isDuplicate(alert), with last = lastAlertByAgent.get(alert.agent_uuid)
IsDuplicate(last, type, t) ==
    IF last = NoAlert THEN FALSE
    ELSE (t - last.timestamp < DEDUP_WINDOW_MS) /\ (last.type = type)

\* a backoff without the ceiling
BackoffDelayUncapped(q) == BACKOFF_BASE_MS * Pow2(q[1].attempts)

\* the delay scheduleQueueProcessing computes
BackoffDelay(q) == Min(BACKOFF_BASE_MS * Pow2(q[1].attempts), BACKOFF_MAX_MS)

\* scheduleQueueProcessing(): the timers after the call
ScheduleQueueProcessing(tm, q, proc, t) ==
    IF proc \/ Len(q) = 0 THEN tm
    ELSE tm (+) SetToBag({t + BackoffDelay(q)})

\* an enqueue that makes room by dropping the newest entry
QueueAlertEvictNewest(q, alert, t) ==
    LET kept == IF Len(q) >= alertQueueMaxSize
                THEN SubSeq(q, 1, Len(q) - 1)
                ELSE q
    IN Append(kept, [alert |-> alert, queuedAt |-> t, attempts |-> 1])

\* an enqueue that never evicts
QueueAlertNoEvict(q, alert, t) ==
    Append(q, [alert |-> alert, queuedAt |-> t, attempts |-> 1])

\* queueAlert(alert): the queue after the call
QueueAlert(q, alert, t) ==
    LET kept == IF Len(q) >= alertQueueMaxSize
                THEN (IF Len(q) = 0 THEN q ELSE Tail(q))
                ELSE q
    IN Append(kept, [alert |-> alert, queuedAt |-> t, attempts |-> 1])

\* the ids queueAlert(alert) drops from a queue q
Evicted(q) ==
    IF Len(q) >= alertQueueMaxSize /\ Len(q) > 0 THEN {q[1].alert.id} ELSE {}

\* queueAlert(alert): the timers after the call
QueueAlertTimers(tm, q, alert, proc, t) ==
    IF ~proc THEN ScheduleQueueProcessing(tm, QueueAlert(q, alert, t), proc, t)
    ELSE tm

\* the value of oldestAge for an empty queue (an age is never negative)
Null == Never

\* statistics that report the age of the newest entry
GetQueueStatsNewest(q, t) ==
    IF Len(q) = 0 THEN [size |-> 0, oldestAge |-> Null]
    ELSE [size |-> Len(q), oldestAge |-> t - q[Len(q)].queuedAt]

\* getQueueStats()
GetQueueStats(q, t) ==
    IF Len(q) = 0 THEN [size |-> 0, oldestAge |-> Null]
    ELSE [size |-> Len(q), oldestAge |-> t - q[1].queuedAt]

\* the for-of loop of processQueue: the next index at or after j whose entry
\* has not expired (Len(q) + 1 when the iterator is exhausted)
RECURSIVE NextLive(_, _, _)
NextLive(q, j, passNow) ==
    IF j > Len(q) THEN j
    ELSE IF passNow - q[j].queuedAt > alertQueueTtlMs THEN NextLive(q, j + 1, passNow)
    ELSE j

\* the ids the loop drops for their age between index i and index j
Expired(q, i, j, passNow) ==
    {q[n].alert.id : n \in {m \in i..(j - 1) :
        m <= Len(q) /\ passNow - q[m].queuedAt > alertQueueTtlMs}}

Mark(f, ids, v) == [i \in DOMAIN f |-> IF i \in ids THEN v ELSE f[i]]

\* item.attempts++ on the entry object, seen through the array that holds it
BumpAttempts(q, id) ==
    [i \in DOMAIN q |-> IF q[i].alert.id = id
                        THEN [q[i] EXCEPT !.attempts = @ + 1] ELSE q[i]]

\* a failed attempt that leaves the counter alone
RetriedUncounted(item) == item

\* processQueue after a failed attempt: item.attempts++
Retried(item) == [item EXCEPT !.attempts = @ + 1]

\* a client that never takes the log-only path
LogOnlyNever(configured) == FALSE

\* sendAlert(alert): no station URL or key is configured, the alert is only logged
LogOnly(configured) == ~configured

\* what the fetch of attemptSend can do: answer with a status, or throw (a
\* transport error, or the abort of AbortSignal.timeout)
Outcomes ==
    {[thrown |-> "none", status |-> 200], [thrown |-> "none", status |-> 500],
     [thrown |-> "network", status |-> 0], [thrown |-> "timeout", status |-> 0]}

NoOutcome == [thrown |-> "none", status |-> 0]

\* an attemptSend that reports success whatever happened
AttemptSendAlwaysTrue(o) == TRUE

\* attemptSend(alert): its result when the fetch did o
AttemptSend(o) ==
    IF o.thrown # "none" THEN FALSE
    ELSE IF ~(o.status \in 200..299) THEN FALSE
    ELSE TRUE

\* sendAlert(alert) up to its await of attemptSend: the deduplication record
\* after the call
RecordAlert(last, agent, type, t) ==
    [last EXCEPT ![agent] = [type |-> type, timestamp |-> t]]

\* sendAlert(alert) up to its await of attemptSend, on the dispatcher's
\* state st = [last, sent, fate, emittedAt, sends]
SendAlert(st, a, k) ==
    IF IsDuplicate(st.last[a], k, now) THEN st
    ELSE LET alert == [id |-> Len(st.sent) + 1, type |-> k, agent_uuid |-> a]
             st1 == [st EXCEPT !.last = RecordAlert(@, a, k, now),
                               !.sent = Append(@, [type |-> k, agent_uuid |-> a]),
                               !.emittedAt[a][k] = now]
         IN IF LogOnly(stationConfigured)
            THEN [st1 EXCEPT !.fate = Append(@, "logged")]
            ELSE [st1 EXCEPT !.fate = Append(@, "attempt"),
                             !.sends = @ \cup {[alert |-> alert, started |-> now]}]

Dispatcher == [last |-> lastAlertByAgent, sent |-> sent, fate |-> fate,
               emittedAt |-> emittedAt, sends |-> sends]

SetDispatcher(st) ==
    /\ lastAlertByAgent' = st.last
    /\ sent' = st.sent
    /\ fate' = st.fate
    /\ emittedAt' = st.emittedAt
    /\ sends' = st.sends

----------------------------------------------------------------------------
\* HeartbeatStore

HasAgent(ag, a) == \E i \in 1..Len(ag) : ag[i].agent_uuid = a

Index(ag, a) == CHOOSE i \in 1..Len(ag) : ag[i].agent_uuid = a

\* a verdict that is still healthy when the grace period has just run out
IsHealthyInclusive(entry, t) ==
    t - entry.last_seen <= HEARTBEAT_INTERVALS[entry.mode] * ZOMBIE_GRACE_MULTIPLIER

\* isHealthy(entry, now)
IsHealthy(entry, t) ==
    t - entry.last_seen < HEARTBEAT_INTERVALS[entry.mode] * ZOMBIE_GRACE_MULTIPLIER

\* getUnhealthyAgents(): the entries, by their ids
GetUnhealthyAgents(ag, t) ==
    LET unhealthy == SelectSeq(ag, LAMBDA e : ~IsHealthy(e, t))
    IN [i \in 1..Len(unhealthy) |-> unhealthy[i].agent_uuid]

\* a restart check that fires on a drop of exactly the slack
RestartDetectedInclusive(ag, a, uptime) ==
    HasAgent(ag, a) /\ ag[Index(ag, a)].uptime_seconds >= uptime + RESTART_SLACK_S

\* recordHeartbeat: restartDetected
RestartDetected(ag, a, uptime) ==
    HasAgent(ag, a) /\ ag[Index(ag, a)].uptime_seconds > uptime + RESTART_SLACK_S

\* a recordHeartbeat that leaves the counter of an existing entry alone
RecordHeartbeatNoCount(ag, a, mode, uptime, t) ==
    IF HasAgent(ag, a)
    THEN [ag EXCEPT ![Index(ag, a)].mode = mode,
                    ![Index(ag, a)].uptime_seconds = uptime,
                    ![Index(ag, a)].last_seen = t]
    ELSE Append(ag, [agent_uuid |-> a, mode |-> mode, uptime_seconds |-> uptime,
                     last_seen |-> t, first_seen |-> t, consecutive_heartbeats |-> 1,
                     observation_mode |-> FALSE,
                     previous_mode |-> "undefined", previous_uptime |-> Never])

\* recordHeartbeat: the store after the call
RecordHeartbeat(ag, a, mode, uptime, t) ==
    IF HasAgent(ag, a)
    THEN LET existing == ag[Index(ag, a)]
         IN [ag EXCEPT ![Index(ag, a)] =
                [existing EXCEPT !.previous_mode = existing.mode,
                                 !.previous_uptime = existing.uptime_seconds,
                                 !.mode = mode, !.uptime_seconds = uptime,
                                 !.last_seen = t,
                                 !.consecutive_heartbeats = @ + 1]]
    ELSE Append(ag, [agent_uuid |-> a, mode |-> mode, uptime_seconds |-> uptime,
                     last_seen |-> t, first_seen |-> t, consecutive_heartbeats |-> 1,
                     observation_mode |-> FALSE,
                     previous_mode |-> "undefined", previous_uptime |-> Never])

\* entry.observation_mode = v, when the record exists
SetObserved(ag, a, v) ==
    IF HasAgent(ag, a) THEN [ag EXCEPT ![Index(ag, a)].observation_mode = v] ELSE ag

\* a cleanup that deletes the record
DropObserved(ag, a) == SelectSeq(ag, LAMBDA e : e.agent_uuid # a)

\* a cleanup that leaves the flag alone
KeepObserved(ag, a) == ag

\* the cleanup closure, when its Set has become empty: entry.observation_mode = false
ClearObserved(ag, a) == SetObserved(ag, a, FALSE)

\* this.agents.delete(agentUuid)
DeleteEntry(ag, a) == SelectSeq(ag, LAMBDA e : e.agent_uuid # a)

\* the loop of notifyObservers over the callbacks cbs from the i-th on, when
\* the callbacks in faulty throw: each is called inside try/catch, r =
\* [invoked, caught] are the callbacks called and the errors logged so far
RECURSIVE CallEach(_, _, _, _)
CallEach(cbs, i, faulty, r) ==
    IF i > Len(cbs) THEN r
    ELSE CallEach(cbs, i + 1, faulty,
                  [invoked |-> Append(r.invoked, cbs[i]),
                   caught |-> IF cbs[i] \in faulty THEN r.caught \cup {cbs[i]} ELSE r.caught])

\* the same loop without the try/catch: the first error ends it
RECURSIVE CallUntilThrow(_, _, _, _)
CallUntilThrow(cbs, i, faulty, r) ==
    IF i > Len(cbs) THEN r
    ELSE IF cbs[i] \in faulty THEN [r EXCEPT !.invoked = Append(@, cbs[i])]
    ELSE CallUntilThrow(cbs, i + 1, faulty, [r EXCEPT !.invoked = Append(@, cbs[i])])

\* a notifyObservers that lets a callback's error escape
NotifyObserversUncaught(cb, sets, a, faulty) ==
    IF cb[a] = 0 THEN [invoked |-> <<>>, caught |-> {}]
    ELSE CallUntilThrow(sets[cb[a]], 1, faulty, [invoked |-> <<>>, caught |-> {}])

\* notifyObservers(agentUuid, entry): the callbacks invoked, in order, and the
\* errors caught
NotifyObservers(cb, sets, a, faulty) ==
    IF cb[a] = 0 THEN [invoked |-> <<>>, caught |-> {}]
    ELSE CallEach(sets[cb[a]], 1, faulty, [invoked |-> <<>>, caught |-> {}])

\* the subscriptions registered for an id
HandlesOf(a) == {h \in DOMAIN handles : handles[h].agent = a}

----------------------------------------------------------------------------
\* POST /heartbeat/:agentId

\* a validation that lets every body through
ValidateAcceptAll(body) == 200

\* the two validations of the route: the status they answer with (200: none)
Validate(body) ==
    IF body.mode = Undefined \/ body.uptime_seconds.type # "number" THEN 400
    ELSE IF body.mode \notin DOMAIN HEARTBEAT_INTERVALS THEN 400
    ELSE 200

\* currentAgent?.mode, read before recordHeartbeat
PreviousMode(ag, a) == IF HasAgent(ag, a) THEN ag[Index(ag, a)].mode ELSE Undefined

\* an uptime read from the field recordHeartbeat keeps of the report before
PreviousUptimeStale(ag, a) ==
    IF HasAgent(ag, a) THEN ag[Index(ag, a)].previous_uptime ELSE Never

\* currentAgent?.uptime_seconds, read before recordHeartbeat (Never: undefined)
PreviousUptime(ag, a) ==
    IF HasAgent(ag, a) THEN ag[Index(ag, a)].uptime_seconds ELSE Never

\* the test of the route before handleEmergencyMode, and the one inside it
EmergencyEntered(mode, previousMode) ==
    /\ mode = "EMERGENCY" /\ previousMode # Undefined /\ previousMode # "EMERGENCY"
    /\ mode = "EMERGENCY" /\ previousMode # "EMERGENCY"

\* the alert alertEmergencyMode builds
EmergencyAlert(a, previousMode, uptime) ==
    [type |-> "EMERGENCY_MODE", agent_uuid |-> a, previous_mode |-> previousMode,
     previous_uptime |-> Never, new_uptime |-> uptime]

\* the alert alertRestartDetected builds
RestartAlert(a, previousUptime, newUptime) ==
    [type |-> "RESTART_DETECTED", agent_uuid |-> a, previous_mode |-> Undefined,
     previous_uptime |-> previousUptime, new_uptime |-> newUptime]

----------------------------------------------------------------------------
\* ZombieDetector

\* a check() that never clears an agent
ClearRecoveredNever(alerted, ag, t) == alerted

\* the second loop of check(): the alerted agents that are healthy are cleared
ClearRecovered(alerted, ag, t) ==
    alerted \ {a \in Agents : HasAgent(ag, a) /\ IsHealthy(ag[Index(ag, a)], t)}

\* no entry object
NoEntry == [agent_uuid |-> Undefined]

\* the entry objects a check() holds that are no longer in the store: none
NoneStale == [a \in Agents |-> NoEntry]

\* handleUnhealthyAgent(entry): missedIntervals
MissedIntervals(entry, t) == (t - entry.last_seen) \div HEARTBEAT_INTERVALS[entry.mode]

\* the alert alertAgentDeath builds
DeathAlert(entry, missedIntervals) ==
    [type |-> "AGENT_DEATH", agent_uuid |-> entry.agent_uuid,
     missed_intervals |-> missedIntervals, last_seen |-> entry.last_seen,
     mode |-> entry.mode, uptime_before_death |-> entry.uptime_seconds]

\* the entry object a check() holds for agent a: the one in the store, unless
\* it was removed from the store while the check() was suspended
Held(stale, ag, a) == IF stale[a] # NoEntry THEN stale[a] ELSE ag[Index(ag, a)]

\* removeAgent(a) seen from a suspended check(): the entry object it still
\* holds for a later turn of its loop is no longer the store's
Detach(sc, ag, a) ==
    IF /\ HasAgent(ag, a)
       /\ sc.stale[a] = NoEntry
       /\ \E i \in (sc.idx + 1)..Len(sc.unhealthy) : sc.unhealthy[i] = a
    THEN [sc EXCEPT !.stale[a] = ag[Index(ag, a)]]
    ELSE sc

\* check() from the i-th entry of its list u of unhealthy entries, on the
\* state st = [alerted, last, sent, fate, emittedAt, deaths, built, stale,
\* scan]: up to the await of an attemptSend (scan is then the suspended
\* invocation) or through the loop that clears the recovered agents
RECURSIVE RunCheck(_, _, _)
RunCheck(u, i, st) ==
    IF i > Len(u)
    THEN [st EXCEPT !.alerted = ClearRecovered(@, agents, now)]
    ELSE LET a == u[i]
         IN IF a \in st.alerted THEN RunCheck(u, i + 1, st)
            ELSE IF IsDuplicate(st.last[a], "AGENT_DEATH", now)
            THEN RunCheck(u, i + 1, [st EXCEPT !.alerted = @ \cup {a}])
            ELSE LET alert == [id |-> Len(st.sent) + 1, type |-> "AGENT_DEATH",
                               agent_uuid |-> a]
                     entry == Held(st.stale, agents, a)
                     silent == HasAgent(agents, a)
                               /\ ~IsHealthy(agents[Index(agents, a)], now)
                     st1 == [st EXCEPT
                               !.last = RecordAlert(@, a, "AGENT_DEATH", now),
                               !.sent = Append(@, [type |-> "AGENT_DEATH", agent_uuid |-> a]),
                               !.emittedAt[a]["AGENT_DEATH"] = now,
                               !.deaths[a] = IF silent THEN @ + 1 ELSE @,
                               !.built = Append(@, DeathAlert(entry, MissedIntervals(entry, now)))]
                 IN IF LogOnly(stationConfigured)
                    THEN RunCheck(u, i + 1, [st1 EXCEPT !.fate = Append(@, "logged"),
                                                        !.alerted = @ \cup {a}])
                    ELSE [st1 EXCEPT !.fate = Append(@, "attempt"),
                                     !.scan = <<[unhealthy |-> u, idx |-> i,
                                                 alert |-> alert, started |-> now,
                                                 stale |-> st.stale]>>]

Scanner == [alerted |-> alertedAgents, last |-> lastAlertByAgent, sent |-> sent,
            fate |-> fate, emittedAt |-> emittedAt, deaths |-> deaths, built |-> <<>>,
            stale |-> NoneStale, scan |-> <<>>]

SetScanner(st) ==
    /\ alertedAgents' = st.alerted
    /\ built' = st.built
    /\ lastAlertByAgent' = st.last
    /\ sent' = st.sent
    /\ fate' = st.fate
    /\ emittedAt' = st.emittedAt
    /\ deaths' = st.deaths

----------------------------------------------------------------------------
Init ==
    /\ now = 0
    /\ stationConfigured \in BOOLEAN
    /\ queue = <<>>
    /\ isProcessing = FALSE
    /\ lastAlertByAgent = [a \in Agents |-> NoAlert]
    /\ timers = EmptyBag
    /\ passes = <<>>
    /\ sends = {}
    /\ sent = <<>>
    /\ fate = <<>>
    /\ emittedAt = [a \in Agents |-> [k \in AlertType |-> Never]]
    /\ flushes = 0
    /\ blocked = 0
    /\ agents = <<>>
    /\ intervalHandle = FALSE
    /\ nextScanAt = 0
    /\ alertedAgents = {}
    /\ scans = <<>>
    /\ deaths = [a \in Agents |-> 0]
    /\ reports = 0
    /\ outcome = NoOutcome
    /\ observationCallbacks = [a \in Agents |-> 0]
    /\ cbSets = <<>>
    /\ handles = <<>>
    /\ liveSubs = {}
    /\ removals = 0
    /\ notified = <<>>
    /\ reported = [a \in Agents |-> [count |-> 0, at |-> Never]]
    /\ handed = <<>>
    /\ caught = {}
    /\ request = NoRequest
    /\ response = 0
    /\ shutdownAt = Never
    /\ awaitingFlush = FALSE
    /\ exitAt = Never
    /\ exited = FALSE
    /\ built = <<>>

\* alertAgentDeath / alertEmergencyMode / alertRestartDetected called by any
\* caller: sendAlert(alert) up to its await of attemptSend (inflight bounds
\* the suspended sendAlert invocations)
NotifyWithin(a, k, inflight) ==
    /\ Len(sent) < MaxAlerts
    /\ Cardinality(sends) < inflight
    /\ SetDispatcher(SendAlert(Dispatcher, a, k))
    /\ outcome' = NoOutcome
    /\ UNCHANGED <<now, stationConfigured, procVars, queue, isProcessing, timers, passes, flushes, blocked, sysVars, obsVars, reportVars>>

Notify(a, k) == NotifyWithin(a, k, MaxInFlight)

\* the fetch of an attemptSend is aborted SEND_TIMEOUT_MS after it started
TimedOut(started) == now - started >= SEND_TIMEOUT_MS

\* sendAlert resumes from attemptSend with its result
SendResume(s, o) ==
    /\ s \in sends
    /\ o.thrown = "timeout" => TimedOut(s.started)
    /\ sends' = sends \ {s}
    /\ outcome' = o
    /\ IF AttemptSend(o)
       THEN /\ fate' = Mark(fate, {s.alert.id}, "delivered")
            /\ UNCHANGED <<queue, timers>>
       ELSE /\ queue' = QueueAlert(queue, s.alert, now)
            /\ timers' = QueueAlertTimers(timers, queue, s.alert, isProcessing, now)
            /\ fate' = Mark(Mark(fate, Evicted(queue), "evicted"), {s.alert.id}, "queued")
    /\ UNCHANGED <<now, stationConfigured, procVars, isProcessing, lastAlertByAgent, passes, sent, emittedAt, flushes, blocked, sysVars, obsVars, reportVars>>

\* the end of processQueue: this.queue = remaining, the reschedule, finally
EndPass(tm, remaining, rest) ==
    /\ queue' = remaining
    /\ timers' = ScheduleQueueProcessing(tm, remaining, TRUE, now)
    /\ isProcessing' = FALSE
    /\ passes' = rest

\* a guard that ignores isProcessing
DrainBlockedNoFlag(proc, q) == Len(q) = 0

\* the guard of processQueue: nothing to do, or a pass is active
DrainBlocked(proc, q) == proc \/ Len(q) = 0

\* processQueue(), with tm the timers at the call
ProcessQueue(tm) ==
    IF DrainBlocked(isProcessing, queue)
    THEN /\ timers' = tm
         /\ blocked' = IF passes # <<>> THEN blocked + 1 ELSE blocked
         /\ UNCHANGED <<queue, isProcessing, passes, fate>>
    ELSE LET j == NextLive(queue, 1, now)
         IN /\ fate' = Mark(fate, Expired(queue, 1, j, now), "expired")
            /\ blocked' = blocked
            /\ IF j > Len(queue)
               THEN EndPass(tm, <<>>, passes)
               ELSE /\ isProcessing' = TRUE
                    /\ passes' = Append(passes, [now |-> now, idx |-> j, item |-> queue[j],
                                                 remaining |-> <<>>, started |-> now,
                                                 tried |-> {queue[j].alert.id}])
                    /\ timers' = tm
                    /\ queue' = queue

\* a drain timer fires: () => this.processQueue()
DrainTimerFire ==
    /\ \E due \in BagToSet(timers) :
          /\ due <= now
          /\ ProcessQueue(timers (-) SetToBag({due}))
    /\ outcome' = NoOutcome
    /\ UNCHANGED <<now, stationConfigured, procVars, lastAlertByAgent, sends, sent, emittedAt, flushes, sysVars, obsVars, reportVars>>

\* flushQueue()
FlushQueue ==
    /\ flushes < MaxFlush
    /\ flushes' = flushes + 1
    /\ ProcessQueue(timers)
    /\ outcome' = NoOutcome
    /\ UNCHANGED <<now, stationConfigured, procVars, lastAlertByAgent, sends, sent, emittedAt, sysVars, obsVars, reportVars>>

\* shutdown() after its await of flushQueue(), when resumed is true:
\* server.close (the process exits when the server has closed) and the
\* forced-exit timer
AfterFlush(resumed) ==
    IF resumed
    THEN /\ awaitingFlush' = FALSE
         /\ exitAt' = IF exitAt = Never THEN now + FORCED_EXIT_MS ELSE exitAt
    ELSE UNCHANGED <<awaitingFlush, exitAt>>

\* processQueue resumes from attemptSend(item.alert) with its result
PassResume(n, o) ==
    /\ n \in 1..Len(passes)
    /\ o.thrown = "timeout" => TimedOut(passes[n].started)
    /\ outcome' = o
    /\ LET p == passes[n]
           ok == AttemptSend(o)
           item == Retried(p.item)
           remaining == IF ok THEN p.remaining ELSE Append(p.remaining, item)
           live == IF ok THEN queue ELSE BumpAttempts(queue, p.item.alert.id)
           j == NextLive(live, p.idx + 1, p.now)
           fate1 == IF ok THEN Mark(fate, {p.item.alert.id}, "delivered") ELSE fate
       IN /\ fate' = Mark(fate1, Expired(live, p.idx + 1, j, p.now), "expired")
          /\ IF j > Len(live)
             THEN /\ EndPass(timers, remaining, RemoveAt(passes, n))
                  /\ AfterFlush(awaitingFlush)
             ELSE /\ passes' = [passes EXCEPT ![n] =
                                   [p EXCEPT !.idx = j, !.item = live[j],
                                             !.remaining = remaining, !.started = now,
                                             !.tried = @ \cup {live[j].alert.id}]]
                  /\ queue' = live
                  /\ UNCHANGED <<timers, isProcessing, awaitingFlush, exitAt>>
    /\ UNCHANGED <<now, stationConfigured, shutdownAt, exited, lastAlertByAgent, sends, sent, emittedAt, flushes, blocked, sysVars, obsVars, reportVars>>

\* time passes; an attempt whose timeout has elapsed resumes first
Tick(limit) ==
    /\ now < limit
    /\ \A s \in sends : ~TimedOut(s.started)
    /\ \A n \in 1..Len(passes) : ~TimedOut(passes[n].started)
    /\ \A n \in 1..Len(scans) : ~TimedOut(scans[n].started)
    /\ intervalHandle => now < nextScanAt
    /\ now' = now + TickMs
    /\ outcome' = NoOutcome
    /\ UNCHANGED <<stationConfigured, procVars, acVars, histVars, sysVars, obsVars, reportVars>>

----------------------------------------------------------------------------
\* check(): getUnhealthyAgents() and the loop over it
Check ==
    LET st == RunCheck(GetUnhealthyAgents(agents, now), 1, Scanner)
    IN /\ SetScanner(st)
       /\ scans' = scans \o st.scan

\* a start() that leaves the first check to the interval timer
StartDeferred ==
    /\ ~intervalHandle
    /\ shutdownAt = Never
    /\ intervalHandle' = TRUE
    /\ nextScanAt' = now + zombieCheckIntervalMs
    /\ outcome' = NoOutcome
    /\ UNCHANGED <<now, stationConfigured, procVars, acVars, histVars, agents,
                   alertedAgents, built, scans, deaths, reports, obsVars, reportVars>>

\* start(): setInterval, and the initial check
Start ==
    /\ ~intervalHandle
    /\ shutdownAt = Never
    /\ intervalHandle' = TRUE
    /\ nextScanAt' = now + zombieCheckIntervalMs
    /\ Check
    /\ outcome' = NoOutcome
    /\ UNCHANGED <<now, stationConfigured, procVars, queue, isProcessing, timers, passes, sends,
                   flushes, blocked, agents, reports, obsVars, reportVars>>

\* the interval timer fires: () => this.check()
ScanTick ==
    /\ intervalHandle
    /\ now >= nextScanAt
    /\ Len(scans) < MaxScans
    /\ nextScanAt' = now + zombieCheckIntervalMs
    /\ Check
    /\ Len(sent') <= MaxAlerts
    /\ outcome' = NoOutcome
    /\ UNCHANGED <<now, stationConfigured, procVars, queue, isProcessing, timers, passes, sends,
                   flushes, blocked, agents, intervalHandle, reports, obsVars, reportVars>>

\* check() resumes from handleUnhealthyAgent with the result of attemptSend
ScanResume(n, o) ==
    /\ n \in 1..Len(scans)
    /\ o.thrown = "timeout" => TimedOut(scans[n].started)
    /\ outcome' = o
    /\ LET sc == scans[n]
           ok == AttemptSend(o)
           a == sc.alert.agent_uuid
           fate1 == IF ok THEN Mark(fate, {sc.alert.id}, "delivered")
                    ELSE Mark(Mark(fate, Evicted(queue), "evicted"), {sc.alert.id}, "queued")
           st == RunCheck(sc.unhealthy, sc.idx + 1,
                          [Scanner EXCEPT !.fate = fate1, !.alerted = @ \cup {a},
                                          !.stale = sc.stale])
       IN /\ IF ok THEN UNCHANGED <<queue, timers>>
             ELSE /\ queue' = QueueAlert(queue, sc.alert, now)
                  /\ timers' = QueueAlertTimers(timers, queue, sc.alert, isProcessing, now)
          /\ SetScanner(st)
          /\ scans' = SubSeq(scans, 1, n - 1) \o st.scan \o SubSeq(scans, n + 1, Len(scans))
          /\ Len(sent') <= MaxAlerts
    /\ UNCHANGED <<now, stationConfigured, procVars, isProcessing, passes, sends, flushes, blocked,
                   agents, intervalHandle, nextScanAt, reports, obsVars, reportVars>>

\* POST /heartbeat/:agentId with the given body, the callbacks in faulty
\* throwing when they are called (inflight bounds the suspended sendAlert
\* invocations)
PostHeartbeat(a, body, faulty, inflight) ==
    /\ intervalHandle
    /\ request' = body
    /\ response' = Validate(body)
    /\ outcome' = NoOutcome
    /\ IF Validate(body) # 200
       THEN UNCHANGED <<acVars, histVars, sysVars, notified, reported, handed, caught>>
       ELSE /\ reports < MaxReports
            /\ LET mode == body.mode
                   uptime == body.uptime_seconds.value
                   previousMode == PreviousMode(agents, a)
                   previousUptime == PreviousUptime(agents, a)
                   restartDetected == RestartDetected(agents, a, uptime)
                   emergency == EmergencyEntered(mode, previousMode)
                   restart == restartDetected /\ previousUptime # Never
                   st1 == IF emergency THEN SendAlert(Dispatcher, a, "EMERGENCY_MODE")
                          ELSE Dispatcher
                   st2 == IF restart THEN SendAlert(st1, a, "RESTART_DETECTED") ELSE st1
                   obs == NotifyObservers(observationCallbacks, cbSets, a, faulty)
               IN /\ agents' = RecordHeartbeat(agents, a, mode, uptime, now)
                  /\ notified' = obs.invoked
                  /\ caught' = obs.caught
                  /\ SetDispatcher(st2)
                  /\ handed' = (IF emergency THEN <<EmergencyAlert(a, previousMode, uptime)>>
                                ELSE <<>>)
                               \o (IF restart THEN <<RestartAlert(a, previousUptime, uptime)>>
                                   ELSE <<>>)
                  /\ Cardinality(st2.sends) <= inflight
                  /\ Len(st2.sent) <= MaxAlerts
            /\ reported' = [reported EXCEPT ![a] = [count |-> @.count + 1, at |-> now]]
            /\ deaths' = [deaths EXCEPT ![a] = 0]
            /\ reports' = reports + 1
            /\ UNCHANGED <<queue, isProcessing, timers, passes, flushes, blocked,
                           intervalHandle, nextScanAt, alertedAgents, built, scans>>
    /\ UNCHANGED <<now, stationConfigured, procVars, obsVars>>

\* POST /heartbeat/:agentId with a valid payload, no observer failing
Heartbeat(a, mode, uptime) ==
    PostHeartbeat(a, [mode |-> mode, uptime_seconds |-> Number(uptime)], {}, MaxInFlight)

\* a client connects to /observe/:agentId: enableObservation(agentId, callback)
Subscribe(a) ==
    /\ intervalHandle
    /\ Len(handles) < MaxSubs
    /\ LET h == Len(handles) + 1
           fresh == observationCallbacks[a] = 0
           idx == IF fresh THEN Len(cbSets) + 1 ELSE observationCallbacks[a]
       IN /\ cbSets' = IF fresh THEN Append(cbSets, <<h>>)
                        ELSE [cbSets EXCEPT ![idx] = Append(@, h)]
          /\ observationCallbacks' = [observationCallbacks EXCEPT ![a] = idx]
          /\ handles' = Append(handles, [agent |-> a, set |-> idx,
                                          marked |-> HasAgent(agents, a), called |-> FALSE])
          /\ liveSubs' = liveSubs \cup {h}
    /\ agents' = SetObserved(agents, a, TRUE)
    /\ outcome' = NoOutcome
    /\ UNCHANGED <<now, stationConfigured, procVars, acVars, histVars, intervalHandle, nextScanAt,
                   alertedAgents, built, scans, deaths, reports, removals, reportVars>>

\* the connection of subscription h closes or fails: its cleanup closure runs
\* (the route calls it once)
Unsubscribe(h) ==
    /\ h \in DOMAIN handles
    /\ ~handles[h].called
    /\ LET a == handles[h].agent
           idx == handles[h].set
           rest == SelectSeq(cbSets[idx], LAMBDA c : c # h)
       IN /\ cbSets' = [cbSets EXCEPT ![idx] = rest]
          /\ IF Len(rest) = 0
             THEN /\ observationCallbacks' = [observationCallbacks EXCEPT ![a] = 0]
                  /\ agents' = ClearObserved(agents, a)
             ELSE UNCHANGED <<observationCallbacks, agents>>
    /\ handles' = [handles EXCEPT ![h].called = TRUE]
    /\ liveSubs' = liveSubs \ {h}
    /\ outcome' = NoOutcome
    /\ UNCHANGED <<now, stationConfigured, procVars, acVars, histVars, intervalHandle, nextScanAt,
                   alertedAgents, built, scans, deaths, reports, removals, reportVars>>

\* DELETE /agents/:agentId: removeAgent(agentId)
RemoveAgent(a) ==
    /\ intervalHandle
    /\ removals < MaxRemovals
    /\ removals' = removals + 1
    /\ agents' = DeleteEntry(agents, a)
    /\ observationCallbacks' = [observationCallbacks EXCEPT ![a] = 0]
    /\ liveSubs' = liveSubs \ HandlesOf(a)
    /\ scans' = [n \in DOMAIN scans |-> Detach(scans[n], agents, a)]
    /\ reported' = [reported EXCEPT ![a] = [count |-> 0, at |-> Never]]
    /\ outcome' = NoOutcome
    /\ UNCHANGED <<now, stationConfigured, procVars, acVars, histVars, intervalHandle, nextScanAt,
                   alertedAgents, built, deaths, reports, cbSets, handles, notified,
                   handed, caught, request, response>>

StoreNext ==
    \/ Start
    \/ \E mode \in ReportModes, uptime \in StoreUptimes : Heartbeat("a1", mode, uptime)
    \/ \E a \in Agents : Subscribe(a)
    \/ \E h \in DOMAIN handles : Unsubscribe(h)
    \/ RemoveAgent("a1")
    \/ \E s \in sends, o \in Outcomes : SendResume(s, o)
    \/ Tick(MaxStoreTime)

StoreSpec == Init /\ [][StoreNext]_vars

\* the request bodies the ingest route's specifications are driven with: the
\* valid ones, and an unknown mode, no mode, a string for the uptime, no uptime
ValidBodies ==
    {[mode |-> m, uptime_seconds |-> Number(u)] : m \in ReportModes, u \in IngestUptimes}

InvalidBodies ==
    {[mode |-> "BOGUS", uptime_seconds |-> Number(0)],
     [mode |-> Undefined, uptime_seconds |-> Number(0)],
     [mode |-> "IDLE", uptime_seconds |-> [type |-> "string", value |-> 0]],
     [mode |-> "IDLE", uptime_seconds |-> [type |-> Undefined, value |-> 0]]}

\* heartbeatStore.recordHeartbeat called before start(): the store the
\* detector is started on
RecordEarly(a, mode, uptime) ==
    /\ ~intervalHandle
    /\ reports < MaxReports
    /\ agents' = RecordHeartbeat(agents, a, mode, uptime, now)
    /\ reported' = [reported EXCEPT ![a] = [count |-> @.count + 1, at |-> now]]
    /\ reports' = reports + 1
    /\ outcome' = NoOutcome
    /\ UNCHANGED <<now, stationConfigured, procVars, acVars, histVars, intervalHandle,
                   nextScanAt, alertedAgents, built, scans, deaths, obsVars, notified, handed,
                   caught, request, response>>

\* SIGTERM or SIGINT: shutdown() up to its await of flushQueue(), and beyond
\* it when flushQueue() returns without awaiting a delivery
Shutdown ==
    /\ intervalHandle
    /\ flushes < MaxFlush
    /\ flushes' = flushes + 1
    /\ intervalHandle' = FALSE
    /\ shutdownAt' = IF shutdownAt = Never THEN now ELSE shutdownAt
    /\ ProcessQueue(timers)
    /\ IF Len(passes') > Len(passes)
       THEN awaitingFlush' = TRUE /\ exitAt' = exitAt
       ELSE AfterFlush(TRUE)
    /\ outcome' = NoOutcome
    /\ UNCHANGED <<now, stationConfigured, exited, lastAlertByAgent, sends, sent, emittedAt,
                   agents, nextScanAt, alertedAgents, built, scans, deaths, reports, obsVars,
                   reportVars>>

\* process.exit: the server has closed, or the forced-exit timer is due
Exit ==
    /\ exitAt # Never
    /\ exited' = TRUE
    /\ outcome' = NoOutcome
    /\ UNCHANGED <<now, stationConfigured, shutdownAt, awaitingFlush, exitAt, acVars,
                   histVars, sysVars, obsVars, reportVars>>

\* the process until it exits; the forced exit is not outlived
ShutdownNext ==
    \/ ~exited /\ Start
    \/ ~exited /\ \E a \in {"a1"}, k \in QueueKinds : Notify(a, k)
    \/ ~exited /\ \E s \in sends, o \in Outcomes : SendResume(s, o)
    \/ ~exited /\ DrainTimerFire
    \/ ~exited /\ \E n \in 1..Len(passes), o \in Outcomes : PassResume(n, o)
    \/ ~exited /\ ScanTick
    \/ ~exited /\ Shutdown
    \/ ~exited /\ Exit
    \/ ~exited /\ (exitAt # Never => now < exitAt) /\ Tick(MaxShutdownTime)

ShutdownSpec == Init /\ [][ShutdownNext]_vars

StartNext ==
    \/ \E a \in Agents, mode \in ReportModes : RecordEarly(a, mode, 0)
    \/ Start
    \/ \E n \in 1..Len(scans), o \in Outcomes : ScanResume(n, o)
    \/ Tick(MaxStartTime)

StartSpec == Init /\ [][StartNext]_vars

IngestNext ==
    \/ Start
    \/ \E body \in ValidBodies, faulty \in SUBSET DOMAIN handles :
          PostHeartbeat("a1", body, faulty, MaxReportInFlight)
    \/ Subscribe("a1")
    \/ \E s \in sends, o \in Outcomes : SendResume(s, o)
    \/ Tick(MaxIngestTime)

IngestSpec == Init /\ [][IngestNext]_vars

ValidationNext ==
    \/ Start
    \/ \E a \in Agents, body \in ValidBodies \cup InvalidBodies :
          PostHeartbeat(a, body, {}, MaxInFlight)
    \/ \E s \in sends, o \in Outcomes : SendResume(s, o)
    \/ Tick(MaxIngestTime)

ValidationSpec == Init /\ [][ValidationNext]_vars

ScannerNext ==
    \/ Start
    \/ ScanTick
    \/ \E n \in 1..Len(scans), o \in Outcomes : ScanResume(n, o)
    \/ \E a \in Agents, mode \in ReportModes, uptime \in ReportUptimes : Heartbeat(a, mode, uptime)
    \/ \E s \in sends, o \in Outcomes : SendResume(s, o)
    \/ Tick(MaxScanTime)

ScannerSpec == Init /\ [][ScannerNext]_vars

\* the scanner with agents in EMERGENCY mode that report, fall silent and are
\* removed
LifecycleNext ==
    \/ Start
    \/ ScanTick
    \/ \E n \in 1..Len(scans), o \in Outcomes : ScanResume(n, o)
    \/ \E a \in Agents : Heartbeat(a, "EMERGENCY", 0)
    \/ \E a \in Agents : RemoveAgent(a)
    \/ Tick(MaxLifecycleTime)

LifecycleSpec == Init /\ [][LifecycleNext]_vars

\* the whole collector around one agent: reports, scans, deliveries, drain
\* passes, subscriptions and a removal
FrameNext ==
    \/ Start
    \/ ScanTick
    \/ \E n \in 1..Len(scans), o \in Outcomes : ScanResume(n, o)
    \/ \E mode \in ReportModes : Heartbeat("a1", mode, 0)
    \/ \E s \in sends, o \in Outcomes : SendResume(s, o)
    \/ DrainTimerFire
    \/ \E n \in 1..Len(passes), o \in Outcomes : PassResume(n, o)
    \/ Subscribe("a1")
    \/ \E h \in DOMAIN handles : Unsubscribe(h)
    \/ RemoveAgent("a1")
    \/ Tick(MaxFrameTime)

FrameSpec == Init /\ [][FrameNext]_vars

NewOutageAlerts ==
    [][\A a \in alertedAgents' \ alertedAgents :
          (HasAgent(agents, a) /\ ~IsHealthy(agents[Index(agents, a)], now))
              => emittedAt'[a]["AGENT_DEATH"] >= agents[Index(agents, a)].last_seen]_vars

----------------------------------------------------------------------------
\* The dispatcher's properties.

\* C3: a notify of a kind issued less than 60 s after an alert of that kind
\* for that agent passed deduplication is suppressed, and one issued more
\* than 60 s after the latest such alert is not, whatever was suppressed in
\* between.
WindowFromFirst ==
    \A a \in Agents, k \in AlertType :
        emittedAt[a][k] # Never =>
            /\ (now - emittedAt[a][k] < DEDUP_WINDOW_MS
                    => IsDuplicate(lastAlertByAgent[a], k, now))
            /\ (now - emittedAt[a][k] > DEDUP_WINDOW_MS
                    => ~IsDuplicate(lastAlertByAgent[a], k, now))

\* C4: no alert passes deduplication less than 60 s after an alert of the
\* same kind for the same agent did.
OnePerWindow ==
    [][\A i \in (Len(sent) + 1)..Len(sent') :
          LET e == sent'[i]
          IN \/ emittedAt[e.agent_uuid][e.type] = Never
             \/ now - emittedAt[e.agent_uuid][e.type] >= DEDUP_WINDOW_MS]_vars

\* C5: with no pass in flight, every alert that was queued and neither
\* delivered, expired nor evicted is in the queue, and no evicted alert is.
OnlyThreeCauses ==
    passes = <<>> =>
        \A i \in DOMAIN fate :
            /\ fate[i] = "queued" => i \in Ids(queue)
            /\ fate[i] = "evicted" => i \notin Ids(queue)

\* C6: the queue never holds more than alertQueueMaxSize entries.
QueueBounded == Len(queue) <= alertQueueMaxSize

QueueBoundedWitness ==
    /\ Len(queue) = alertQueueMaxSize
    /\ \E i \in DOMAIN fate : fate[i] = "evicted"

\* C7: a pass that ends with entries left in the queue schedules a drain.
PassReschedules ==
    [][(Len(passes') < Len(passes) /\ Len(queue') > 0)
          => BagCardinality(timers') > BagCardinality(timers)]_vars

\* C8: a queued alert is never left with nothing that will drain it: no
\* pass in flight, no drain timer pending and no notify in progress.
NeverStranded ==
    ~(/\ Len(queue) > 0
      /\ passes = <<>>
      /\ timers = EmptyBag
      /\ sends = {})

\* C9: when a pass ends, every entry of the queue it iterated that was
\* older than the TTL at the pass's time has had no attempt and is gone,
\* and every other entry has had its attempt; an expired alert is never
\* attempted afterwards.
TtlDecidesAttempt ==
    [][/\ \A n \in DOMAIN passes' : fate'[passes'[n].item.alert.id] # "expired"
       /\ (Len(passes') < Len(passes)) =>
             \A n \in DOMAIN passes, i \in DOMAIN queue :
                 LET id == queue[i].alert.id
                 IN IF passes[n].now - queue[i].queuedAt > alertQueueTtlMs
                    THEN id \notin passes[n].tried /\ id \notin Ids(queue')
                    ELSE id \in passes[n].tried]_vars

\* C10: at most one pass is in flight, and a drain timer or a flush that
\* fires while a pass is active changes neither the queue nor the pass.
OneDrainInFlight ==
    [][/\ Len(passes') <= 1
       /\ (isProcessing /\ (BagCardinality(timers') < BagCardinality(timers)
                             \/ flushes' # flushes))
             => (queue' = queue /\ passes' = passes /\ fate' = fate)]_vars

OneDrainInFlightWitness == blocked > 0 /\ Len(passes) = 1

QueueNext ==
    \/ \E k \in QueueKinds : Notify("a1", k)
    \/ \E s \in sends, o \in Outcomes : SendResume(s, o)
    \/ DrainTimerFire
    \/ FlushQueue
    \/ \E n \in 1..Len(passes), o \in Outcomes : PassResume(n, o)
    \/ Tick(MaxTime)

QueueSpec == Init /\ [][QueueNext]_vars

DedupNext ==
    \/ \E a \in Agents, k \in AlertType : Notify(a, k)
    \/ \E s \in sends, o \in Outcomes : SendResume(s, o)
    \/ Tick(MaxDedupTime)

DedupSpec == Init /\ [][DedupNext]_vars

\* notifies for one agent that arrive while earlier deliveries are in flight
OverlapNext ==
    \/ \E k \in AlertType : NotifyWithin("a1", k, MaxOverlap)
    \/ \E s \in sends, o \in Outcomes : SendResume(s, o)
    \/ Tick(MaxOverlapTime)

OverlapSpec == Init /\ [][OverlapNext]_vars

----------------------------------------------------------------------------
\* The notify path.

\* C11 (as stated): with no station configured, an alert that passes
\* deduplication is in the queue when the notify step ends.
UnconfiguredQueues ==
    [][(~stationConfigured /\ Len(sent') > Len(sent))
          => \A i \in (Len(sent) + 1)..Len(sent') : i \in Ids(queue')]_vars

\* C11 (amended): with no station configured, every alert that passes
\* deduplication is only logged: none is attempted, queued or scheduled.
UnconfiguredOnlyLogs ==
    ~stationConfigured =>
        /\ queue = <<>>
        /\ sends = {}
        /\ timers = EmptyBag
        /\ \A i \in DOMAIN fate : fate[i] = "logged"
        /\ \A i \in DOMAIN sent :
               lastAlertByAgent[sent[i].agent_uuid] # NoAlert

UnconfiguredOnlyLogsWitness ==
    /\ ~stationConfigured
    /\ Len(sent) >= 2
    /\ \A i \in DOMAIN fate : fate[i] = "logged"

\* C12: a notify commits its deduplication record before it awaits the
\* delivery, and returns after every result of the delivery: a 2xx answer
\* leaves the queue alone, and a non-2xx answer, a transport error and a
\* timeout each leave the alert in the queue.
NotifyNeverFails ==
    [][/\ \A s \in sends' \ sends :
             lastAlertByAgent'[s.alert.agent_uuid]
                 = [type |-> s.alert.type, timestamp |-> now]
       /\ \A s \in sends \ sends' :
             IF outcome'.thrown = "none" /\ outcome'.status = 200
             THEN queue' = queue /\ fate'[s.alert.id] = "delivered"
             ELSE /\ s.alert.id \in Ids(queue')
                  /\ fate'[s.alert.id] = "queued"
                  /\ lastAlertByAgent'[s.alert.agent_uuid] # NoAlert
       /\ \A s \in sends, o \in Outcomes :
             (o.thrown = "timeout" => TimedOut(s.started)) => ENABLED SendResume(s, o)]_vars

NotifyNeverFailsWitness ==
    /\ outcome.thrown = "timeout"
    /\ Len(queue) > 0
    /\ sends = {}

\* C13: a step that schedules a drain sets one timer, due
\* min(5000 * 2^attempts, 60000) ms from now, attempts being the counter of
\* the entry at the head of the queue; for every counter up to MaxAttempts
\* the delay is that value, is at most 60000 and does not decrease.
BackoffFormula ==
    [][/\ BagCardinality(timers') > BagCardinality(timers) =>
             LET n == queue'[1].attempts
                 d == IF 5000 * 2^n < 60000 THEN 5000 * 2^n ELSE 60000
             IN timers' = timers (+) SetToBag({now + d})
       /\ \A n \in 0..MaxAttempts :
             LET d == BackoffDelay(<<[attempts |-> n]>>)
             IN /\ d = (IF 5000 * 2^n < 60000 THEN 5000 * 2^n ELSE 60000)
                /\ d <= 60000
                /\ n > 0 => d >= BackoffDelay(<<[attempts |-> n - 1]>>)]_vars

\* a drain was just scheduled 20 s ahead, behind an entry that failed twice
BackoffFormulaWitness ==
    /\ Len(queue) > 0
    /\ queue[1].attempts = 2
    /\ \E due \in BagToSet(timers) : due - now = 20000

----------------------------------------------------------------------------
\* The store

\* C14: over the reports of one agent with no removal in between, the
\* entry's consecutive_heartbeats is the number of reports received and its
\* last_seen is the time of the latest one; last_seen never decreases while
\* the entry stays.
ReportsCounted ==
    [][/\ \A i \in DOMAIN agents' :
            LET e == agents'[i]
            IN /\ e.consecutive_heartbeats = reported'[e.agent_uuid].count
               /\ e.last_seen = reported'[e.agent_uuid].at
       /\ \A a \in Agents :
            (HasAgent(agents, a) /\ HasAgent(agents', a))
                => agents'[Index(agents', a)].last_seen >= agents[Index(agents, a)].last_seen]_vars

\* an agent has reported twice at one instant and once more ten seconds later
ReportsCountedWitness ==
    /\ HasAgent(agents, "a1")
    /\ LET e == agents[Index(agents, "a1")]
       IN e.consecutive_heartbeats = 3 /\ e.first_seen = 0 /\ e.last_seen = TickMs

\* C15: an entry is healthy at time now exactly when now - last_seen is less
\* than twice the interval of its mode (EMERGENCY 5 s, IDLE 30 s, SLEEP
\* 15 min), so an elapsed time of exactly twice the interval is unhealthy;
\* getUnhealthyAgents() returns exactly the entries that are not healthy.
HealthVerdict ==
    LET interval(m) == CASE m = "EMERGENCY" -> 5 * 1000
                         [] m = "IDLE" -> 30 * 1000
                         [] m = "SLEEP" -> 15 * 60 * 1000
        verdict(m, elapsed) == elapsed < 2 * interval(m)
        at(m, seen) == [mode |-> m, last_seen |-> seen]
        listed == GetUnhealthyAgents(agents, now)
    IN /\ \A i \in DOMAIN agents :
            IsHealthy(agents[i], now) <=> verdict(agents[i].mode, now - agents[i].last_seen)
       /\ {listed[i] : i \in DOMAIN listed}
            = {agents[i].agent_uuid : i \in {j \in DOMAIN agents :
                    ~verdict(agents[j].mode, now - agents[j].last_seen)}}
       /\ \A i, j \in DOMAIN listed : listed[i] = listed[j] => i = j
       /\ \A m \in {"EMERGENCY", "IDLE", "SLEEP"}, seen \in {0, now} :
            /\ IsHealthy(at(m, seen), seen + 2 * interval(m) - 1)
            /\ ~IsHealthy(at(m, seen), seen + 2 * interval(m))
            /\ ~IsHealthy(at(m, seen), seen + 2 * interval(m) + 1)
       /\ IsHealthy(at("IDLE", now), now + 59000)
       /\ ~IsHealthy(at("IDLE", now), now + 61000)

\* an EMERGENCY entry last seen exactly ten seconds ago is listed as unhealthy
HealthVerdictWitness ==
    /\ HasAgent(agents, "a1")
    /\ LET e == agents[Index(agents, "a1")]
       IN e.mode = "EMERGENCY" /\ now - e.last_seen = 10000
    /\ GetUnhealthyAgents(agents, now) = <<"a1">>

\* C16: recordHeartbeat reports a restart exactly when an entry already
\* exists and its stored uptime exceeds the new uptime by more than 10: a
\* drop of 11 or more is a restart, a drop of exactly 10, a smaller change
\* or a first report is not.  A RESTART_DETECTED alert is built only for a
\* reported restart, and for every one that deduplication does not suppress.
RestartOnDropOverTen ==
    [][\A a \in Agents :
        reported'[a].count = reported[a].count + 1 =>
            LET new == agents'[Index(agents', a)].uptime_seconds
                detected == RestartDetected(agents, a, new)
                drop == IF HasAgent(agents, a)
                        THEN agents[Index(agents, a)].uptime_seconds - new ELSE 0
                alerted == \E i \in (Len(sent) + 1)..Len(sent') :
                              sent'[i] = [type |-> "RESTART_DETECTED", agent_uuid |-> a]
            IN /\ detected <=> (HasAgent(agents, a) /\ drop >= 11)
               /\ (reported[a].count = 0) => ~detected
               /\ ~detected => ~alerted
               /\ detected => (alerted \/ lastAlertByAgent[a].type = "RESTART_DETECTED")]_vars

\* an agent's uptime fell from 11 to 0 and the restart alert was built
RestartOnDropOverTenWitness ==
    /\ HasAgent(agents, "a1")
    /\ LET e == agents[Index(agents, "a1")]
       IN e.previous_uptime = 11 /\ e.uptime_seconds = 0
    /\ \E i \in DOMAIN sent : sent[i] = [type |-> "RESTART_DETECTED", agent_uuid |-> "a1"]

\* C17: an entry's observation_mode is true exactly while at least one
\* subscription for its id has neither been unsubscribed nor dropped by a
\* removal, also when the subscription was registered before the agent's
\* first report created the entry.
ObservedWhileSubscribed ==
    \A i \in DOMAIN agents :
        agents[i].observation_mode
            <=> \E h \in liveSubs : handles[h].agent = agents[i].agent_uuid

\* C18: a registered callback is invoked on every later recordHeartbeat for
\* its id until its own cleanup is called or the agent is removed; the
\* cleanup of another subscription of that id (also one registered before a
\* removeAgent) never stops it from being notified.
NotifiedUntilUnsubscribed ==
    [][\A a \in Agents :
        reported'[a].count = reported[a].count + 1 =>
            \A h \in liveSubs :
                handles[h].agent = a => \E i \in DOMAIN notified' : notified'[i] = h]_vars

\* C19: the cleanup of the last remaining subscription of an agent sets the
\* entry's observation_mode to false and leaves the entry in the store with
\* every other field, and every other entry, unchanged.
LastUnsubscribeClears ==
    [][\A h \in DOMAIN handles :
        (/\ ~handles[h].called /\ handles'[h].called
         /\ liveSubs \cap HandlesOf(handles[h].agent) = {h})
            => LET a == handles[h].agent
               IN IF HasAgent(agents, a)
                  THEN /\ agents' = [agents EXCEPT ![Index(agents, a)].observation_mode = FALSE]
                       /\ ~agents'[Index(agents', a)].observation_mode
                  ELSE agents' = agents]_vars

\* the only subscription of an agent was registered when its entry existed
\* (which set the flag) and has been cleaned up: the entry is still there,
\* with its two reports, and is no longer marked
LastUnsubscribeClearsWitness ==
    /\ removals = 0
    /\ handles = <<[agent |-> "a1", set |-> 1, marked |-> TRUE, called |-> TRUE]>>
    /\ HasAgent(agents, "a1")
    /\ LET e == agents[Index(agents, "a1")]
       IN ~e.observation_mode /\ e.consecutive_heartbeats = 2

\* C20: removeAgent(id) changes nothing when the store has no entry for id;
\* when it has one, the entry is deleted and the subscriptions of id are
\* dropped, so that no callback registered before the removal is invoked by
\* a later report for id.
RemoveMissingChangesNothing ==
    [][/\ removals' # removals =>
            \/ /\ agents' = agents
               /\ observationCallbacks' = observationCallbacks
            \/ \E a \in Agents :
                   /\ HasAgent(agents, a) /\ ~HasAgent(agents', a)
                   /\ Len(agents') = Len(agents) - 1
                   /\ observationCallbacks' = [observationCallbacks EXCEPT ![a] = 0]
       /\ \A a \in Agents :
            reported'[a].count = reported[a].count + 1 =>
                \A i \in DOMAIN notified' : notified'[i] \in liveSubs]_vars

----------------------------------------------------------------------------
\* The ingest route

\* C21: when a subscriber's callback throws during recordHeartbeat, the
\* entry is still updated, every callback registered for the id is still
\* invoked, in registration order, and the request is answered normally.
FaultyObserverIsolated ==
    [][\A a \in Agents :
        reported'[a].count = reported[a].count + 1 =>
            /\ notified' = (IF observationCallbacks[a] = 0 THEN <<>>
                            ELSE cbSets[observationCallbacks[a]])
            /\ \A i, j \in DOMAIN notified' : i < j => notified'[i] < notified'[j]
            /\ caught' \subseteq {notified'[i] : i \in DOMAIN notified'}
            /\ HasAgent(agents', a)
            /\ LET e == agents'[Index(agents', a)]
               IN /\ e.last_seen = now
                  /\ e.mode = request'.mode
                  /\ e.uptime_seconds = request'.uptime_seconds.value
                  /\ e.consecutive_heartbeats = reported'[a].count
            /\ response' = 200]_vars

\* the first of two callbacks threw, the second was still invoked and the
\* report was recorded and answered
FaultyObserverIsolatedWitness ==
    /\ notified = <<1, 2>> /\ caught = {1}
    /\ response = 200
    /\ HasAgent(agents, "a1") /\ agents[Index(agents, "a1")].last_seen = now

\* C22: every accepted report whose mode is EMERGENCY while the agent's
\* previous mode was not EMERGENCY (an agent without a previous mode counts
\* as not in EMERGENCY) hands an EMERGENCY_MODE alert to the AlertClient
\* while the report is handled, before any later scan; a report that keeps
\* the agent in EMERGENCY hands none.
EmergencyOnEntry ==
    [][\A a \in Agents :
        reported'[a].count = reported[a].count + 1 =>
            LET wasEmergency == HasAgent(agents, a)
                                /\ agents[Index(agents, a)].mode = "EMERGENCY"
                entered == request'.mode = "EMERGENCY" /\ ~wasEmergency
                alerted == \E i \in DOMAIN handed' :
                              /\ handed'[i].type = "EMERGENCY_MODE"
                              /\ handed'[i].agent_uuid = a
            IN (entered <=> alerted) /\ nextScanAt' = nextScanAt]_vars

\* C23: every accepted report on which recordHeartbeat detects a restart
\* hands one RESTART_DETECTED alert to the AlertClient, carrying the uptime
\* stored before the report as previous_uptime and the reported uptime as
\* new_uptime; no other report hands one.
RestartCarriesUptimes ==
    [][\A a \in Agents :
        reported'[a].count = reported[a].count + 1 =>
            LET new == request'.uptime_seconds.value
                restarts == {i \in DOMAIN handed' : handed'[i].type = "RESTART_DETECTED"}
            IN IF RestartDetected(agents, a, new)
               THEN /\ Cardinality(restarts) = 1
                    /\ \A i \in restarts :
                          /\ handed'[i].agent_uuid = a
                          /\ handed'[i].previous_uptime = agents[Index(agents, a)].uptime_seconds
                          /\ handed'[i].new_uptime = new
                          /\ handed'[i].previous_uptime > handed'[i].new_uptime + 10
               ELSE restarts = {}]_vars

\* an agent's uptime fell from 11 to 0 and the alert carries both values
RestartCarriesUptimesWitness ==
    /\ \E i \in DOMAIN handed :
          /\ handed[i].type = "RESTART_DETECTED" /\ handed[i].agent_uuid = "a1"
          /\ handed[i].previous_uptime = 11 /\ handed[i].new_uptime = 0
    /\ agents[Index(agents, "a1")].uptime_seconds = 0

\* C24 (as stated): when one report triggers both an EMERGENCY_MODE and a
\* RESTART_DETECTED alert for an agent, both pass deduplication and both go
\* to a delivery attempt (or from there to the queue).
BothKindsAttempted ==
    [][(reports' # reports /\ Len(handed') = 2) =>
          /\ Len(sent') = Len(sent) + 2
          /\ \A i \in (Len(sent) + 1)..Len(sent') : fate'[i] = "attempt"]_vars

\* C24 (amended): when one report triggers both alerts, neither suppresses
\* the other: each passes deduplication unless the agent's latest recorded
\* alert before the report is one of its own kind, less than a window old;
\* each that passes starts a delivery attempt when a station is configured
\* and is only logged when none is.
NeitherSuppressesOther ==
    [][(reports' # reports /\ Len(handed') = 2) =>
          LET a == handed'[1].agent_uuid
              last == lastAlertByAgent[a]
              fresh(k) == last.type = k /\ now - last.timestamp < 60000
              new == (Len(sent) + 1)..Len(sent')
              passed(k) == \E i \in new : sent'[i] = [type |-> k, agent_uuid |-> a]
          IN /\ handed'[1].type = "EMERGENCY_MODE" /\ handed'[2].type = "RESTART_DETECTED"
             /\ ~fresh("EMERGENCY_MODE") => passed("EMERGENCY_MODE")
             /\ ~fresh("RESTART_DETECTED") => passed("RESTART_DETECTED")
             /\ \A i \in new :
                  IF stationConfigured
                  THEN /\ fate'[i] = "attempt"
                       /\ \E s \in sends' \ sends : s.alert.id = i /\ s.started = now
                  ELSE fate'[i] = "logged"]_vars

\* both alerts of one report are awaiting their delivery attempts
NeitherSuppressesOtherWitness ==
    /\ Len(handed) = 2
    /\ \E s1, s2 \in sends :
          /\ s1.alert.type = "EMERGENCY_MODE" /\ s2.alert.type = "RESTART_DETECTED"
          /\ s1.alert.agent_uuid = s2.alert.agent_uuid
          /\ s1.started = s2.started

\* C30: a report whose mode is not one of the three modes, or whose
\* uptime_seconds is missing or not a number, is rejected by the route with
\* status 400 and leaves the store, the deduplication map, the queue and the
\* scanner's set of alerted agents unchanged; a valid report is accepted.
InvalidReportRejected ==
    [][(request' # request \/ response' # response) =>
          LET invalid == \/ request'.mode \notin {"EMERGENCY", "IDLE", "SLEEP"}
                         \/ request'.uptime_seconds.type # "number"
          IN /\ response' = (IF invalid THEN 400 ELSE 200)
             /\ invalid => /\ agents' = agents
                            /\ lastAlertByAgent' = lastAlertByAgent
                            /\ queue' = queue /\ timers' = timers /\ sends' = sends
                            /\ alertedAgents' = alertedAgents
                            /\ sent' = sent /\ handed' = handed
                            /\ observationCallbacks' = observationCallbacks
                            /\ reports' = reports
             /\ ~invalid => reports' = reports + 1]_vars

\* a report with a string for its uptime was rejected after two reports and
\* an alert had been accepted
InvalidReportRejectedWitness ==
    /\ response = 400 /\ request.uptime_seconds.type = "string"
    /\ reports = 2 /\ Len(sent) = 1 /\ Len(agents) = 1

----------------------------------------------------------------------------
\* The scanner

\* C25: when a scan reaches its clearing loop, every agent that is healthy
\* then and is in alertedAgents is removed from it, and the scan emits no
\* alert of any kind for that agent.
RecoveryClearsSilently ==
    [][LET begun == nextScanAt' # nextScanAt \/ (~intervalHandle /\ intervalHandle')
           finished == \/ begun /\ Len(scans') = Len(scans)
                       \/ Len(scans') < Len(scans)
       IN finished =>
            \A a \in alertedAgents :
                (HasAgent(agents, a) /\ IsHealthy(agents[Index(agents, a)], now))
                    => /\ a \notin alertedAgents'
                       /\ \A i \in (Len(sent) + 1)..Len(sent') : sent'[i].agent_uuid # a
                       /\ lastAlertByAgent'[a] = lastAlertByAgent[a]
                       /\ emittedAt'[a] = emittedAt[a]]_vars

\* an agent was alerted dead, reported again, and a later scan has cleared
\* it; its death alert is still the only alert
RecoveryClearsSilentlyWitness ==
    /\ ~stationConfigured
    /\ sent = <<[type |-> "AGENT_DEATH", agent_uuid |-> "a1"]>>
    /\ alertedAgents = {} /\ scans = <<>>
    /\ HasAgent(agents, "a1")
    /\ IsHealthy(agents[Index(agents, "a1")], now)
    /\ agents[Index(agents, "a1")].last_seen < now

\* C27: start() runs the first scan at once, before a scan period has
\* elapsed: the interval timer is due one period after the start, and every
\* agent that is unhealthy when start() is called has its AGENT_DEATH alert
\* emitted by that first scan, the first of them at the instant of the start
\* and each other one as soon as the scan has awaited the alerts before it.
FirstScanAtStart ==
    intervalHandle =>
        LET startedAt == nextScanAt - zombieCheckIntervalMs
            dead == {a \in Agents :
                        /\ HasAgent(agents, a)
                        /\ ~IsHealthy(agents[Index(agents, a)], startedAt)}
            pending == {a \in dead : \E n \in DOMAIN scans :
                           \E i \in (scans[n].idx + 1)..Len(scans[n].unhealthy) :
                               scans[n].unhealthy[i] = a}
        IN /\ now <= nextScanAt
           /\ \A a \in dead \ pending :
                 /\ emittedAt[a]["AGENT_DEATH"] >= startedAt
                 /\ \E i \in DOMAIN sent : sent[i] = [type |-> "AGENT_DEATH", agent_uuid |-> a]
           /\ dead # {} => \E a \in dead : emittedAt[a]["AGENT_DEATH"] = startedAt
           /\ ~stationConfigured => pending = {}
           /\ (scans = <<>>) => (pending = {} /\ dead \subseteq alertedAgents)

\* the detector was started ten seconds after an agent's only report in
\* EMERGENCY mode, and the agent's death alert exists at that same instant
FirstScanAtStartWitness ==
    /\ intervalHandle /\ now = nextScanAt - zombieCheckIntervalMs /\ now > 0
    /\ HasAgent(agents, "a1") /\ ~IsHealthy(agents[Index(agents, "a1")], now)
    /\ emittedAt["a1"]["AGENT_DEATH"] = now

----------------------------------------------------------------------------
\* Shutdown

\* C29: flushQueue() performs one complete drain pass before it returns:
\* when it returns in the step it is called in, every entry that was in the
\* queue has been dropped for its age or has been given a delivery attempt
\* (by this call or by the pass that is active), also when a timer-triggered
\* pass is active at the call.
FlushDrainsAll ==
    [][(flushes' # flushes /\ Len(passes') = Len(passes)) =>
          \A id \in Ids(queue) :
              \/ fate'[id] = "expired"
              \/ \E n \in DOMAIN passes : id \in passes[n].tried]_vars

\* C26: after stop() has been called, no scheduled scan and no scheduled
\* drain starts running any more.
NothingRunsAfterStop ==
    [][shutdownAt # Never =>
          /\ nextScanAt' = nextScanAt
          /\ \A due \in BagToSet(timers) : CopiesIn(due, timers') >= CopiesIn(due, timers)]_vars

\* C28: once shutdown has begun, the forced-exit timer is armed while the
\* final drain is still in progress, so the deadline bounds the drain.
ForcedExitArmedDuringDrain ==
    (shutdownAt # Never /\ ~exited) => exitAt # Never

----------------------------------------------------------------------------
\* The queue

\* C31: an enqueue that finds the queue at or above alertQueueMaxSize drops
\* exactly the head entry and appends the new alert at the tail, with its
\* enqueue time and an attempt counter of 1; an enqueue below the maximum
\* only appends; the notify that enqueues returns normally after every
\* failed delivery.
EvictsOldestOnly ==
    [][\A s \in sends \ sends' :
          /\ ~(outcome'.thrown = "none" /\ outcome'.status \in 200..299) =>
                LET entry == [alert |-> s.alert, queuedAt |-> now, attempts |-> 1]
                IN IF Len(queue) >= alertQueueMaxSize
                   THEN /\ queue' = Append(Tail(queue), entry)
                        /\ Len(queue') = Len(queue)
                   ELSE queue' = Append(queue, entry)
          /\ \A o \in Outcomes :
                (o.thrown = "timeout" => TimedOut(s.started)) => ENABLED SendResume(s, o)]_vars

\* a failed delivery has just put its alert at the tail of a full queue, and
\* an older alert was evicted for it
EvictsOldestOnlyWitness ==
    /\ outcome.status = 500
    /\ Len(queue) = alertQueueMaxSize
    /\ queue[Len(queue)].queuedAt = now /\ queue[Len(queue)].attempts = 1
    /\ \E i \in DOMAIN fate : fate[i] = "evicted" /\ i < queue[1].alert.id

\* C32: at most one scheduled drain timer is pending at any time.
OneDrainPending == BagCardinality(timers) <= 1

\* C33: the drain scheduled for a freshly queued alert (attempt counter 1 at
\* the head of the queue) is due BACKOFF_BASE_MS after the enqueue.
FirstDrainAfterBase ==
    [][(BagCardinality(timers') > BagCardinality(timers) /\ queue'[1].attempts = 1)
          => timers' = timers (+) SetToBag({now + BACKOFF_BASE_MS})]_vars

\* C35: the queue is ordered by enqueue time, oldest first, and
\* getQueueStats() reports its length and the age of its oldest entry, or a
\* size of 0 and null when it is empty.
QueueFifoStats ==
    LET stats == GetQueueStats(queue, now)
    IN /\ \A i, j \in DOMAIN queue : i < j => queue[i].queuedAt <= queue[j].queuedAt
       /\ stats.size = Len(queue)
       /\ IF queue = <<>> THEN stats.oldestAge = Null
          ELSE /\ stats.oldestAge >= 0
               /\ \A i \in DOMAIN queue : stats.oldestAge >= now - queue[i].queuedAt
               /\ \E i \in DOMAIN queue : stats.oldestAge = now - queue[i].queuedAt

\* two entries queued ten seconds apart: the oldest age is that of the head
QueueFifoStatsWitness ==
    /\ Len(queue) = 2
    /\ queue[1].queuedAt < queue[2].queuedAt
    /\ GetQueueStats(queue, now) = [size |-> 2, oldestAge |-> now - queue[1].queuedAt]
    /\ now > queue[2].queuedAt

\* C34: when a drain pass resumes from the delivery attempt of an entry, a
\* successful attempt leaves the entry out of the entries the pass keeps, and
\* a failed one appends it to them with its attempt counter increased by
\* exactly one; when the pass ends the queue is the kept entries, in the
\* order they had in the queue.
DrainAttemptEffect ==
    [][(passes # <<>> /\ passes' # passes /\ Len(passes') <= Len(passes)) =>
          LET p == passes[1]
              ok == outcome'.thrown = "none" /\ outcome'.status \in 200..299
              ended == Len(passes') < Len(passes)
              kept == IF ended THEN queue' ELSE passes'[1].remaining
              pos(id) == CHOOSE i \in DOMAIN queue : queue[i].alert.id = id
          IN /\ ok => /\ kept = p.remaining
                       /\ p.item.alert.id \notin Ids(kept)
             /\ ~ok => kept = Append(p.remaining,
                                      [alert |-> p.item.alert, queuedAt |-> p.item.queuedAt,
                                       attempts |-> p.item.attempts + 1])
             /\ ended => \A i, j \in DOMAIN queue' :
                            (/\ i < j
                             /\ queue'[i].alert.id \in Ids(queue)
                             /\ queue'[j].alert.id \in Ids(queue))
                                => pos(queue'[i].alert.id) < pos(queue'[j].alert.id)]_vars

\* a pass has ended after two failed attempts: both entries are back in the
\* queue in their order, each with one more attempt
DrainAttemptEffectWitness ==
    /\ passes = <<>> /\ ~isProcessing
    /\ outcome.thrown = "network"
    /\ Len(queue) = 2
    /\ queue[1].attempts = 2 /\ queue[2].attempts = 2
    /\ queue[1].alert.id < queue[2].alert.id

----------------------------------------------------------------------------
\* Deduplication and deliveries in flight

\* C36: a notify that finds a duplicate changes nothing, and no alert passes
\* deduplication while the delivery attempt of an alert of its kind for its
\* agent is still in flight.
InFlightSuppresses ==
    [][/\ \A a \in Agents, k \in AlertType :
             IsDuplicate(lastAlertByAgent[a], k, now)
                 => SendAlert(Dispatcher, a, k) = Dispatcher
       /\ \A i \in (Len(sent) + 1)..Len(sent') :
             ~\E s \in sends : /\ s.alert.type = sent'[i].type
                               /\ s.alert.agent_uuid = sent'[i].agent_uuid]_vars

----------------------------------------------------------------------------
\* Death alerts

\* C37: every AGENT_DEATH alert a scan emits carries the agent's record as
\* it is at the emission: missed_intervals = floor((now - last_seen) /
\* interval(mode)), and the record's last_seen, mode and uptime.
DeathAlertDetails ==
    [][LET new == {i \in (Len(sent) + 1)..Len(sent') : sent'[i].type = "AGENT_DEATH"}
           interval(m) == CASE m = "EMERGENCY" -> 5000
                            [] m = "IDLE" -> 30000
                            [] m = "SLEEP" -> 900000
       IN new # {} =>
            /\ Len(built') = Cardinality(new)
            /\ \A k \in DOMAIN built' :
                  LET d == built'[k]
                      a == d.agent_uuid
                  IN /\ \E i \in new : sent'[i].agent_uuid = a
                     /\ HasAgent(agents, a)
                     /\ LET e == agents[Index(agents, a)]
                        IN /\ d.missed_intervals * interval(e.mode) <= now - e.last_seen
                           /\ now - e.last_seen < (d.missed_intervals + 1) * interval(e.mode)
                           /\ d.last_seen = e.last_seen
                           /\ d.mode = e.mode
                           /\ d.uptime_before_death = e.uptime_seconds]_vars

\* C38: an AGENT_DEATH alert is emitted only for an agent that is unhealthy
\* at the emission, and its missed_intervals is at least 2.
DeathOnlyForUnhealthy ==
    [][(Len(sent') > Len(sent) /\ built' # <<>> /\ sent'[Len(sent')].type = "AGENT_DEATH") =>
          \A k \in DOMAIN built' :
              /\ HasAgent(agents, built'[k].agent_uuid)
              /\ ~IsHealthy(agents[Index(agents, built'[k].agent_uuid)], now)
              /\ built'[k].missed_intervals >= 2]_vars

\* C40: every id in alertedAgents has an entry in the store.
SuppressedHaveRecords == \A a \in alertedAgents : HasAgent(agents, a)

----------------------------------------------------------------------------
\* The life of a record

\* C39: a record leaves the store only in a removeAgent call, and a step
\* that is neither a report nor a removal (a scan, a delivery, a drain pass,
\* a subscription, a cleanup, the passing of time) leaves every record in
\* place with its mode, uptime, last_seen, first_seen and
\* consecutive_heartbeats.
OnlyRemovalDestroys ==
    [][/\ (\E a \in Agents : HasAgent(agents, a) /\ ~HasAgent(agents', a))
            => removals' = removals + 1
       /\ (reports' = reports /\ removals' = removals) =>
            /\ Len(agents') = Len(agents)
            /\ \A i \in DOMAIN agents :
                  /\ agents'[i].agent_uuid = agents[i].agent_uuid
                  /\ agents'[i].mode = agents[i].mode
                  /\ agents'[i].uptime_seconds = agents[i].uptime_seconds
                  /\ agents'[i].last_seen = agents[i].last_seen
                  /\ agents'[i].first_seen = agents[i].first_seen
                  /\ agents'[i].consecutive_heartbeats = agents[i].consecutive_heartbeats]_vars

\* the agent's record has outlived a scan that alerted it dead, a failed
\* delivery, a drain pass and a subscription with its cleanup
OnlyRemovalDestroysWitness ==
    /\ removals = 0
    /\ HasAgent(agents, "a1") /\ "a1" \in alertedAgents
    /\ agents[Index(agents, "a1")].consecutive_heartbeats = 2
    /\ agents[Index(agents, "a1")].last_seen = 0
    /\ \E h \in DOMAIN handles : handles[h].called
    /\ \E i \in DOMAIN queue : queue[i].attempts = 2
    /\ passes = <<>> /\ scans = <<>>

====
